---------------------------- MODULE Spec2Model ----------------------------
(***************************************************************************)
(* The BSDF streaming decoder (src/src/parser.rs).                         *)
(*                                                                         *)
(* A Parser owns a sequential byte source and an optional header version.  *)
(* The byte source is a sequence of read results: a byte 0..255, or IoErr  *)
(* for a read on which the underlying reader returns an io::Error.         *)
(* Every decoder is an operator from the remaining read results to a       *)
(* record [res, rd]: the Rust Result it returns and what is left to read.  *)
(*                                                                         *)
(* Integers wider than TLC's are kept as 16/24/24-bit limbs:               *)
(* [hi, mid, lo] denotes hi * 2^48 + mid * 2^24 + lo.                      *)
(***************************************************************************)
EXTENDS Integers, Sequences, FiniteSets, TLC

VARIABLES
    reader,     \* Parser.reader: the read results not yet consumed
    version,    \* Parser.version: Option<u16>
    results,    \* what each call of parse returned, in call order
    input,      \* the read results the Parser was constructed over
    doc,        \* the value trees the producer encoded into input (<<>>: raw input)
    fault,      \* how input departs from the clean encoding of doc
    features    \* the cargo features of the build: a subset of {"md5","zlib","bz2"}

vars == <<reader, version, results, input, doc, fault, features>>

----------------------------------------------------------------------------
(* Wire constants: consts.rs and the tag bytes of parse_item.              *)

PREFIX == <<66, 83, 68, 70>>        \* *b"BSDF"
CHECKSUM_SET == 255
LARGE_SIZE == 253
SMALL_SIZE_CUTOFF == 251
COMPRESSION_NOT_SET == 0
COMPRESSION_ZLIB == 1
COMPRESSION_BZ2 == 2
U8_MAX == 255

TAG_VOID == 118      \* b'v'
TAG_FALSE == 110     \* b'n'
TAG_TRUE == 121      \* b'y'
TAG_INT16 == 104     \* b'h'
TAG_INT64 == 105     \* b'i'
TAG_F32 == 102       \* b'f'
TAG_F64 == 100       \* b'd'
TAG_STRING == 115    \* b's'
TAG_LIST == 108      \* b'l'
TAG_MAP == 109       \* b'm'
TAG_BLOB == 98       \* b'b'

HEADER_LEN == 6      \* take(6) of parse_header
DIGEST_LEN == 16     \* take(16) of parse_blob

IoErr == -1          \* a read result Some(Err(e)) of the byte source
IsByte(x) == x \in 0..255

----------------------------------------------------------------------------
(* Rust's Option and Result, the Error enum of lib.rs, the Item enum.      *)

None == [some |-> FALSE]
Some(x) == [some |-> TRUE, val |-> x]

Ok(x) == [r |-> "Ok", v |-> x]
Err(e) == [r |-> "Err", e |-> e]
\* The call does not return: a panic (capacity overflow) or an abort
\* (allocation failure) inside Vec::with_capacity / HashMap::with_capacity.
Crash == [r |-> "Crash"]

MissingData == [kind |-> "MissingData"]
InvalidHeader == [kind |-> "InvalidHeader"]
Eof == [kind |-> "Eof"]
InvalidSize == [kind |-> "InvalidSize"]
InvalidUtf8 == [kind |-> "InvalidUtf8"]
InvalidBlobHash == [kind |-> "InvalidBlobHash"]
ReaderError == [kind |-> "Reader"]
ZlibNotCompiled == [kind |-> "InvalidExtension", ext |-> "ZlibNotCompiled"]
Bz2NotCompiled == [kind |-> "InvalidExtension", ext |-> "Bz2NotCompiled"]
InvalidCompressionSetting(c) ==
    [kind |-> "InvalidExtension", ext |-> "InvalidCompressionSetting", setting |-> c]

Void == [t |-> "Void"]
Bool(b) == [t |-> "Bool", b |-> b]
Int16(n) == [t |-> "Int16", n |-> n]
Int64(w) == [t |-> "Int64", w |-> w]
F32(bits) == [t |-> "F32", bits32 |-> bits]
F64(bits) == [t |-> "F64", bits64 |-> bits]
String(s) == [t |-> "String", s |-> s]
Blob(d) == [t |-> "Blob", d |-> d]
List(items) == [t |-> "List", items |-> items]
Map(m) == [t |-> "Map", m |-> m]

\* The return of an operator: the Result and the read results left.
Ret(res, rd) == [res |-> res, rd |-> rd]

IsOk(x) == x.res.r = "Ok"

----------------------------------------------------------------------------
(* usize / u64 / i64 as limbs.                                             *)

Limbs(hi, mid, lo) == [hi |-> hi, mid |-> mid, lo |-> lo]
USize(n) == Limbs(0, 0, n)                     \* `l as usize`, l a byte
IsSmall(u) == u.hi = 0 /\ u.mid = 0            \* u < 2^24
IsZero(u) == u.hi = 0 /\ u.mid = 0 /\ u.lo = 0

\* min(u, avail) for avail < 2^24: how many items take(u) can yield.
Clamp(u, avail) == IF IsSmall(u) /\ u.lo < avail THEN u.lo ELSE avail

\* u - 1 for u > 0: one iteration of `for _ in 0..length` done.
Dec(u) ==
    IF u.lo > 0 THEN Limbs(u.hi, u.mid, u.lo - 1)
    ELSE IF u.mid > 0 THEN Limbs(u.hi, u.mid - 1, 16777215)
    ELSE Limbs(u.hi - 1, 16777215, 16777215)

\* mutant: the subtraction wraps around instead of saturating
wrapping_sub(a, b) ==
    LET bLo  == IF a.lo < b.lo THEN 1 ELSE 0
        lo   == a.lo - b.lo + bLo * 16777216
        bMid == IF a.mid - bLo < b.mid THEN 1 ELSE 0
        mid  == a.mid - bLo - b.mid + bMid * 16777216
        bHi  == IF a.hi - bMid < b.hi THEN 1 ELSE 0
        hi   == a.hi - bMid - b.hi + bHi * 65536
    IN  Limbs(hi, mid, lo)

\* usize::saturating_sub
saturating_sub(a, b) ==
    LET less == \/ a.hi < b.hi
                \/ a.hi = b.hi /\ a.mid < b.mid
                \/ a.hi = b.hi /\ a.mid = b.mid /\ a.lo < b.lo
        bLo  == IF a.lo < b.lo THEN 1 ELSE 0
        lo   == a.lo - b.lo + bLo * 16777216
        bMid == IF a.mid - bLo < b.mid THEN 1 ELSE 0
        mid  == a.mid - bLo - b.mid + bMid * 16777216
        hi   == a.hi - bMid - b.hi
    IN  IF less THEN Limbs(0, 0, 0) ELSE Limbs(hi, mid, lo)

\* u16 / i16 / i64 / usize ::from_le_bytes
u16_from_be_bytes(b) == 256 * b[1] + b[2]                   \* mutant: big-endian
u16_from_le_bytes(b) == b[1] + 256 * b[2]

i16_from_le_bytes_unsigned(b) == b[1] + 256 * b[2]         \* mutant: no sign
i16_from_le_bytes(b) ==
    LET u == b[1] + 256 * b[2]
    IN  IF u >= 32768 THEN u - 65536 ELSE u

usize_from_le_bytes(b) ==
    Limbs(b[7] + 256 * b[8],
          b[4] + 256 * b[5] + 65536 * b[6],
          b[1] + 256 * b[2] + 65536 * b[3])

i64_from_le_bytes(b) ==
    LET u == b[7] + 256 * b[8]
    IN  Limbs(IF u >= 32768 THEN u - 65536 ELSE u,
              b[4] + 256 * b[5] + 65536 * b[6],
              b[1] + 256 * b[2] + 65536 * b[3])

\* f32 / f64 ::from_le_bytes: the value is kept as its IEEE-754 bit pattern.
f32_from_le_bytes(b) == [hi16 |-> b[3] + 256 * b[4], lo16 |-> b[1] + 256 * b[2]]
f64_from_le_bytes(b) == usize_from_le_bytes(b)

----------------------------------------------------------------------------
(* The byte source: Peekable<Bytes<Box<dyn Read>>>.                        *)

Drop(rd, k) == SubSeq(rd, k + 1, Len(rd))

\* mutant: the end of the stream is reported as MissingData
next_missing(rd) ==
    IF rd = <<>> THEN Ret(Err(MissingData), rd)
    ELSE IF Head(rd) = IoErr THEN Ret(Err(ReaderError), Tail(rd))
    ELSE Ret(Ok(Head(rd)), Tail(rd))

\* Parser::next: one byte, Eof at end of stream, Reader on an io::Error.
next(rd) ==
    IF rd = <<>> THEN Ret(Err(Eof), rd)
    ELSE IF Head(rd) = IoErr THEN Ret(Err(ReaderError), Tail(rd))
    ELSE Ret(Ok(Head(rd)), Tail(rd))

\* n calls of Parser::next in a row (`let byte_1 = self.next()?; ...`):
\* the bytes, or the first failure.
RECURSIVE next_n(_, _, _)
next_n(rd, n, acc) ==
    IF n = 0 THEN Ret(Ok(acc), rd)
    ELSE LET b == next(rd)
         IN  IF IsOk(b) THEN next_n(b.rd, n - 1, Append(acc, b.res.v))
             ELSE b

\* self.reader.by_ref().take(n).collect::<Result<Vec<u8>, _>>()?
\* Stops early at end of stream (a short Vec, no error) and at the first
\* io::Error, which it has consumed.
take_collect(rd, n) ==
    LET k    == Clamp(n, Len(rd))
        errs == {j \in 1..k : rd[j] = IoErr}
    IN  IF errs = {} THEN Ret(Ok(SubSeq(rd, 1, k)), Drop(rd, k))
        ELSE LET j == CHOOSE e \in errs : \A o \in errs : e <= o
             IN  Ret(Err(ReaderError), Drop(rd, j))

\* Parser::skip_bytes: take(n).for_each(|_| {}) discards up to n read
\* results, io::Errors among them.
skip_bytes(rd, n) == Drop(rd, Clamp(n, Len(rd)))


----------------------------------------------------------------------------
(* Scalar codecs and the size codec.                                       *)

\* The n bytes of `self.next()?` n times over, then from_le_bytes.
parse_int16(rd) ==
    LET bytes == next_n(rd, 2, <<>>)
    IN  IF IsOk(bytes) THEN Ret(Ok(i16_from_le_bytes(bytes.res.v)), bytes.rd) ELSE bytes

parse_int64(rd) ==
    LET bytes == next_n(rd, 8, <<>>)
    IN  IF IsOk(bytes) THEN Ret(Ok(i64_from_le_bytes(bytes.res.v)), bytes.rd) ELSE bytes

parse_usize(rd) ==
    LET bytes == next_n(rd, 8, <<>>)
    IN  IF IsOk(bytes) THEN Ret(Ok(usize_from_le_bytes(bytes.res.v)), bytes.rd) ELSE bytes

parse_f32(rd) ==
    LET bytes == next_n(rd, 4, <<>>)
    IN  IF IsOk(bytes) THEN Ret(Ok(f32_from_le_bytes(bytes.res.v)), bytes.rd) ELSE bytes

parse_f64(rd) ==
    LET bytes == next_n(rd, 8, <<>>)
    IN  IF IsOk(bytes) THEN Ret(Ok(f64_from_le_bytes(bytes.res.v)), bytes.rd) ELSE bytes

\* mutant: the reserved band starts one byte early, at 250
parse_size_early_cutoff(rd) ==
    LET first_byte == next(rd)
    IN  IF ~IsOk(first_byte) THEN first_byte
        ELSE IF first_byte.res.v = LARGE_SIZE THEN parse_usize(first_byte.rd)
        ELSE IF first_byte.res.v \in (SMALL_SIZE_CUTOFF - 1)..U8_MAX
             THEN Ret(Err(InvalidSize), first_byte.rd)
        ELSE Ret(Ok(USize(first_byte.res.v)), first_byte.rd)

parse_size(rd) ==
    LET first_byte == next(rd)
    IN  IF ~IsOk(first_byte) THEN first_byte
        ELSE IF first_byte.res.v = LARGE_SIZE THEN parse_usize(first_byte.rd)
        ELSE IF first_byte.res.v \in SMALL_SIZE_CUTOFF..U8_MAX
             THEN Ret(Err(InvalidSize), first_byte.rd)
        ELSE Ret(Ok(USize(first_byte.res.v)), first_byte.rd)

\* core::str::from_utf8 accepts b: well-formed UTF-8 (no overlong forms, no
\* surrogates, nothing above U+10FFFF).
IsCont(x) == x \in 128..191
RECURSIVE is_utf8(_)
is_utf8(b) ==
    IF b = <<>> THEN TRUE
    ELSE LET c == b[1]
             n == Len(b)
         IN  IF c < 128 THEN is_utf8(Drop(b, 1))
             ELSE IF c \in 194..223
                  THEN n >= 2 /\ IsCont(b[2]) /\ is_utf8(Drop(b, 2))
             ELSE IF c \in 224..239
                  THEN /\ n >= 3
                       /\ b[2] \in (IF c = 224 THEN 160..191
                                    ELSE IF c = 237 THEN 128..159 ELSE 128..191)
                       /\ IsCont(b[3])
                       /\ is_utf8(Drop(b, 3))
             ELSE IF c \in 240..244
                  THEN /\ n >= 4
                       /\ b[2] \in (IF c = 240 THEN 144..191
                                    ELSE IF c = 244 THEN 128..143 ELSE 128..191)
                       /\ IsCont(b[3])
                       /\ IsCont(b[4])
                       /\ is_utf8(Drop(b, 4))
             ELSE FALSE

\* The String is kept as its (valid UTF-8) bytes.
parse_string(rd) ==
    LET length == parse_size(rd)
    IN  IF ~IsOk(length) THEN length
        ELSE LET text_data == take_collect(length.rd, length.res.v)
             IN  IF ~IsOk(text_data) THEN text_data
                 ELSE IF is_utf8(text_data.res.v) THEN text_data
                 ELSE Ret(Err(InvalidUtf8), text_data.rd)

----------------------------------------------------------------------------
(* Allocation, checksum and the optional codecs.                           *)

\* Vec::with_capacity(n) / HashMap::with_capacity(n) returns.  A request of
\* more than isize::MAX elements panics (capacity overflow) whatever the
\* element type; a request below 2^24 elements is taken to succeed; in
\* between it is the allocator's call (mem), or a capacity overflow again
\* when the elements are wide enough.
with_capacity(n, mem) ==
    IF n.hi >= 32768 THEN FALSE
    ELSE IF IsSmall(n) THEN TRUE
    ELSE mem

\* md5::compute of the md5 crate: a deterministic 16-byte digest of the data.
\* The digest function itself is a stand-in (a position-weighted sum per
\* digest byte); only "same data, same digest; 16 bytes" is relied on.
RECURSIVE weighted_sum(_, _, _)
weighted_sum(data, j, i) ==
    IF j > Len(data) THEN 0
    ELSE ((j + i) * (data[j] + 1) + weighted_sum(data, j + 1, i)) % 256

md5_compute(data) ==
    [i \in 1..DIGEST_LEN |-> (17 * i + Len(data) + weighted_sum(data, 1, i)) % 256]

\* mutant: the digest is never compared
check_hash_skipped(data, hash) == TRUE

\* #[cfg(feature = "md5")] / #[cfg(not(feature = "md5"))] check_hash
check_hash(data, hash) ==
    IF "md5" \in features THEN md5_compute(data) = hash ELSE TRUE

\* read_to_end of flate2's ZlibDecoder / bzip2's BzDecoder over the data.
\* The codecs are stand-ins: a magic byte, then (count, byte) runs; anything
\* else is the decoder's io::Error, which `?` turns into Error::Reader.
RECURSIVE expand_runs(_)
expand_runs(runs) ==
    IF runs = <<>> THEN <<>>
    ELSE [k \in 1..runs[1] |-> runs[2]] \o expand_runs(Drop(runs, 2))

read_to_end(magic, data) ==
    IF Len(data) >= 1 /\ data[1] = magic /\ Len(data) % 2 = 1
    THEN Ok(expand_runs(Tail(data)))
    ELSE Err(ReaderError)

decompress_zlib(data, size, mem) ==
    IF "zlib" \in features
    THEN IF with_capacity(size, mem) THEN read_to_end(120, data) ELSE Crash
    ELSE Err(ZlibNotCompiled)

decompress_bz2(data, size, mem) ==
    IF "bz2" \in features
    THEN IF with_capacity(size, mem) THEN read_to_end(66, data) ELSE Crash
    ELSE Err(Bz2NotCompiled)

\* parse_blob runs as a chain of steps, each taking what the step before
\* read; a failed read (the `?`) ends the chain with that failure.

\* the hash check, the decompression and the final Ok(data)
blob_finish(compressed_setting, data_size, md5_hash, data, rest, mem) ==
    IF ~check_hash(data, md5_hash) THEN Ret(Err(InvalidBlobHash), rest)
    ELSE IF compressed_setting = COMPRESSION_NOT_SET THEN Ret(Ok(data), rest)
    ELSE IF compressed_setting = COMPRESSION_ZLIB
         THEN Ret(decompress_zlib(data, data_size, mem), rest)
    ELSE IF compressed_setting = COMPRESSION_BZ2
         THEN Ret(decompress_bz2(data, data_size, mem), rest)
    ELSE Ret(Err(InvalidCompressionSetting(compressed_setting)), rest)

\* `for b in self.reader.by_ref().take(used_size) { data.push(b?) }` has
\* run; then skip_bytes(allocated_size.saturating_sub(used_size))
blob_data(allocated_size, used_size, data_size, compressed_setting, md5_hash, data, mem) ==
    IF ~IsOk(data) THEN data
    ELSE blob_finish(compressed_setting, data_size, md5_hash, data.res.v,
                     skip_bytes(data.rd, saturating_sub(allocated_size, used_size)), mem)

\* skip_bytes(byte_alignment_indicator) has run, aligned is what is left;
\* Vec::with_capacity(used_size), then the data loop
blob_aligned(allocated_size, used_size, data_size, compressed_setting, md5_hash, aligned, mem) ==
    IF ~with_capacity(used_size, mem) THEN Ret(Crash, aligned)
    ELSE blob_data(allocated_size, used_size, data_size, compressed_setting, md5_hash,
                   take_collect(aligned, used_size), mem)

blob_alignment(allocated_size, used_size, data_size, compressed_setting, md5_hash, byte_alignment_indicator, mem) ==
    IF ~IsOk(byte_alignment_indicator) THEN byte_alignment_indicator
    ELSE blob_aligned(allocated_size, used_size, data_size, compressed_setting, md5_hash,
                      skip_bytes(byte_alignment_indicator.rd,
                                 USize(byte_alignment_indicator.res.v)), mem)

blob_hash(allocated_size, used_size, data_size, compressed_setting, md5_hash, mem) ==
    IF ~IsOk(md5_hash) THEN md5_hash
    ELSE blob_alignment(allocated_size, used_size, data_size, compressed_setting,
                        md5_hash.res.v, next(md5_hash.rd), mem)

\* `if checksum_setting == consts::CHECKSUM_SET { take(16).collect()? } else { Vec::new() }`
blob_checksum(allocated_size, used_size, data_size, compressed_setting, checksum_setting, mem) ==
    IF ~IsOk(checksum_setting) THEN checksum_setting
    ELSE blob_hash(allocated_size, used_size, data_size, compressed_setting,
                   IF checksum_setting.res.v = CHECKSUM_SET
                   THEN take_collect(checksum_setting.rd, USize(DIGEST_LEN))
                   ELSE Ret(Ok(<<>>), checksum_setting.rd),
                   mem)

blob_compression(allocated_size, used_size, data_size, compressed_setting, mem) ==
    IF ~IsOk(compressed_setting) THEN compressed_setting
    ELSE blob_checksum(allocated_size, used_size, data_size, compressed_setting.res.v,
                       next(compressed_setting.rd), mem)

blob_data_size(allocated_size, used_size, data_size, mem) ==
    IF ~IsOk(data_size) THEN data_size
    ELSE blob_compression(allocated_size, used_size, data_size.res.v,
                          next(data_size.rd), mem)

blob_used_size(allocated_size, used_size, mem) ==
    IF ~IsOk(used_size) THEN used_size
    ELSE blob_data_size(allocated_size, used_size.res.v, parse_size(used_size.rd), mem)

blob_allocated_size(allocated_size, mem) ==
    IF ~IsOk(allocated_size) THEN allocated_size
    ELSE blob_used_size(allocated_size.res.v, parse_size(allocated_size.rd), mem)

parse_blob(rd, mem) == blob_allocated_size(parse_size(rd), mem)

----------------------------------------------------------------------------
(* The recursive value parser.                                             *)

\* Item::X(x), X the variant named.
MakeItem(variant, x) ==
    CASE variant = "Int16"  -> Int16(x)
      [] variant = "Int64"  -> Int64(x)
      [] variant = "F32"    -> F32(x)
      [] variant = "F64"    -> F64(x)
      [] variant = "String" -> String(x)
      [] variant = "List"   -> List(x)
      [] variant = "Map"    -> Map(x)
      [] variant = "Blob"   -> Blob(x)

\* Result<T, Error> to Result<Option<Item>, Error>: `.map(Item::X)?` and
\* the final Ok(Some(item)).
Wrap(ret, variant) ==
    IF IsOk(ret) THEN Ret(Ok(Some(MakeItem(variant, ret.res.v))), ret.rd) ELSE ret

\* mutant: a key already in the map keeps its first item
insert_if_absent(map, key, item) ==
    [k \in DOMAIN map \cup {key} |-> IF k \in DOMAIN map THEN map[k] ELSE item]

\* HashMap::insert: the key now maps to the item, whatever it mapped to.
insert(map, key, item) ==
    [k \in DOMAIN map \cup {key} |-> IF k = key THEN item ELSE map[k]]

RECURSIVE parse_item(_, _), parse_list_loop(_, _, _, _), parse_map_loop(_, _, _, _)

\* mutant: a missing element ends the list instead of failing the parse
list_push_lenient(item, mem, left, list) ==
    IF ~IsOk(item) THEN item
    ELSE IF ~item.res.v.some THEN Ret(Ok(list), item.rd)
    ELSE parse_list_loop(item.rd, mem, Dec(left), Append(list, item.res.v.val))

\* `list.push(self.parse_item()?.ok_or_else(|| Error::MissingData)?)`,
\* item what parse_item returned, then the iterations left
list_push(item, mem, left, list) ==
    IF ~IsOk(item) THEN item
    ELSE IF ~item.res.v.some THEN Ret(Err(MissingData), item.rd)
    ELSE parse_list_loop(item.rd, mem, Dec(left), Append(list, item.res.v.val))

\* parse_list's `for _ in 0..length`, left iterations to go
parse_list_loop(rd, mem, left, list) ==
    IF IsZero(left) THEN Ret(Ok(list), rd)
    ELSE list_push(parse_item(rd, mem), mem, left, list)

\* `Vec::with_capacity(length)` and the loop, length what parse_size returned
list_sized(length, mem) ==
    IF ~IsOk(length) THEN length
    ELSE IF ~with_capacity(length.res.v, mem) THEN Ret(Crash, length.rd)
    ELSE parse_list_loop(length.rd, mem, length.res.v, <<>>)

parse_list(rd, mem) == list_sized(parse_size(rd), mem)

\* `let item = self.parse_item()?.ok_or_else(|| Error::MissingData)?;
\*  map.insert(key, item);`, then the iterations left
map_insert(key, item, mem, left, map) ==
    IF ~IsOk(item) THEN item
    ELSE IF ~item.res.v.some THEN Ret(Err(MissingData), item.rd)
    ELSE parse_map_loop(item.rd, mem, Dec(left), insert(map, key, item.res.v.val))

\* `let key = self.parse_string()?;`, key what parse_string returned
map_key(key, mem, left, map) ==
    IF ~IsOk(key) THEN key
    ELSE map_insert(key.res.v, parse_item(key.rd, mem), mem, left, map)

\* parse_map's `for _ in 0..length`, left iterations to go
parse_map_loop(rd, mem, left, map) ==
    IF IsZero(left) THEN Ret(Ok(map), rd)
    ELSE map_key(parse_string(rd), mem, left, map)

\* `Map::with_capacity(length)` and the loop, length what parse_size returned
map_sized(length, mem) ==
    IF ~IsOk(length) THEN length
    ELSE IF ~with_capacity(length.res.v, mem) THEN Ret(Crash, length.rd)
    ELSE parse_map_loop(length.rd, mem, length.res.v, << >>)

parse_map(rd, mem) == map_sized(parse_size(rd), mem)

\* parse_item's `match next_byte`, r the read results after the tag byte
match_tag(next_byte, r, mem) ==
    CASE next_byte = TAG_VOID   -> Ret(Ok(Some(Void)), r)
      [] next_byte = TAG_FALSE  -> Ret(Ok(Some(Bool(FALSE))), r)
      [] next_byte = TAG_TRUE   -> Ret(Ok(Some(Bool(TRUE))), r)
      [] next_byte = TAG_INT16  -> Wrap(parse_int16(r), "Int16")
      [] next_byte = TAG_INT64  -> Wrap(parse_int64(r), "Int64")
      [] next_byte = TAG_F32    -> Wrap(parse_f32(r), "F32")
      [] next_byte = TAG_F64    -> Wrap(parse_f64(r), "F64")
      [] next_byte = TAG_STRING -> Wrap(parse_string(r), "String")
      [] next_byte = TAG_LIST   -> Wrap(parse_list(r, mem), "List")
      [] next_byte = TAG_MAP    -> Wrap(parse_map(r, mem), "Map")
      [] next_byte = TAG_BLOB   -> Wrap(parse_blob(r, mem), "Blob")
      [] OTHER                  -> Ret(Ok(None), r)

\* ret, but an Ok(None) turned into an error
Rejecting(ret) == IF ret.res = Ok(None) THEN Ret(Err(MissingData), ret.rd) ELSE ret

\* mutant: an unrecognized tag byte is an error, not "no value"
parse_item_rejecting(rd, mem) ==
    IF rd = <<>> THEN Ret(Ok(None), rd)
    ELSE IF Head(rd) = IoErr THEN Ret(Err(ReaderError), Tail(rd))
    ELSE Rejecting(match_tag(Head(rd), Tail(rd), mem))

parse_item(rd, mem) ==
    IF rd = <<>> THEN Ret(Ok(None), rd)
    ELSE IF Head(rd) = IoErr THEN Ret(Err(ReaderError), Tail(rd))
    ELSE match_tag(Head(rd), Tail(rd), mem)

----------------------------------------------------------------------------
(* Parser::parse_header, Parser::parse and Parser::new.                    *)

\* mutant: the magic is compared before the length is checked
parse_header_magic_first(rd, ver) ==
    LET first_bytes == take_collect(rd, USize(HEADER_LEN))
    IN  IF ~IsOk(first_bytes) THEN [res |-> first_bytes.res, rd |-> first_bytes.rd, version |-> ver]
        ELSE LET buffer == first_bytes.res.v
             IN  IF SubSeq(buffer, 1, IF Len(buffer) < 4 THEN Len(buffer) ELSE 4) # PREFIX
                 THEN [res |-> Err(InvalidHeader), rd |-> first_bytes.rd, version |-> ver]
                 ELSE IF Len(buffer) # HEADER_LEN
                 THEN [res |-> Err(MissingData), rd |-> first_bytes.rd, version |-> ver]
                 ELSE [res |-> Ok(<<>>), rd |-> first_bytes.rd,
                       version |-> Some(u16_from_le_bytes(SubSeq(buffer, 5, 6)))]

\* [res, rd, version]: the Result, the reader and the version field after it.
parse_header(rd, ver) ==
    LET first_bytes == take_collect(rd, USize(HEADER_LEN))
    IN  IF ~IsOk(first_bytes) THEN [res |-> first_bytes.res, rd |-> first_bytes.rd, version |-> ver]
        ELSE LET buffer == first_bytes.res.v
             IN  IF Len(buffer) # HEADER_LEN
                 THEN [res |-> Err(MissingData), rd |-> first_bytes.rd, version |-> ver]
                 ELSE IF SubSeq(buffer, 1, 4) # PREFIX
                 THEN [res |-> Err(InvalidHeader), rd |-> first_bytes.rd, version |-> ver]
                 ELSE [res |-> Ok(<<>>), rd |-> first_bytes.rd,
                       version |-> Some(u16_from_le_bytes(SubSeq(buffer, 5, 6)))]

\* `Ok(self.parse_item()?)` after a header that passed
parse_value(item, ver) == [res |-> item.res, rd |-> item.rd, version |-> ver]

\* `self.parse_header()?;`, header what parse_header returned
after_header(header, mem) ==
    IF header.res.r # "Ok" THEN header
    ELSE parse_value(parse_item(header.rd, mem), header.version)

parse(rd, ver, mem) == after_header(parse_header(rd, ver), mem)

\* Parser::new over the read results s, in a build with the features f.
new(s, f, d, flt) ==
    /\ reader = s
    /\ version = None
    /\ results = <<>>
    /\ input = s
    /\ doc = d
    /\ fault = flt
    /\ features = f

MaxCalls == 3

\* One call of the public Parser::parse.  mem: whether the allocator grants
\* the huge requests this call makes.  A Parser whose call did not return
\* is not called again.
Parse ==
    /\ Len(results) < MaxCalls
    /\ IF results = <<>> THEN TRUE ELSE results[Len(results)] # Crash
    /\ \E mem \in BOOLEAN :
         \E out \in {parse(reader, version, mem)} :
             /\ reader' = out.rd
             /\ version' = out.version
             /\ results' = Append(results, out.res)
    /\ UNCHANGED <<input, doc, fault, features>>

----------------------------------------------------------------------------
(* Inputs: encoded documents.  The producer's value tree is an Item whose  *)
(* maps are sequences of <<key, tree>> pairs in the order written.         *)

MaxDepth == 2        \* nesting depth of the encoded trees
MaxLen == 2          \* elements of an encoded list, pairs of an encoded map

TMap(pairs) == [t |-> "Map", pairs |-> pairs]

\* A blob as written: allocated bytes reserved for the stored payload, of
\* which Len(payload) are used; the digest is there iff checksum = 0xFF.
TBlob(allocated, data_size, compression, checksum, digest, align, payload) ==
    [t |-> "Blob", allocated |-> allocated, data_size |-> data_size,
     compression |-> compression, checksum |-> checksum, digest |-> digest,
     align |-> align, payload |-> payload]

\* n >= 0 as k little-endian bytes
RECURSIVE le_bytes(_, _)
le_bytes(n, k) == IF k = 0 THEN <<>> ELSE <<n % 256>> \o le_bytes(n \div 256, k - 1)

\* The eight little-endian bytes of the limbs u, u.hi >= 0.
LimbBytes(u) == le_bytes(u.lo, 3) \o le_bytes(u.mid, 3) \o le_bytes(u.hi, 2)

\* The wire form of a size below 2^24: inline up to 250 unless the producer
\* writes every size wide, else 253 and 8 bytes.
EncodeSize(n, wide) ==
    IF n < SMALL_SIZE_CUTOFF /\ ~wide THEN <<n>> ELSE <<LARGE_SIZE>> \o le_bytes(n, 8)

EncodeString(s, wide) == EncodeSize(Len(s), wide) \o s

RECURSIVE Encode(_, _), EncodeAll(_, _), EncodePairs(_, _)
Encode(v, wide) ==
    CASE v.t = "Void"   -> <<TAG_VOID>>
      [] v.t = "Bool"   -> IF v.b THEN <<TAG_TRUE>> ELSE <<TAG_FALSE>>
      [] v.t = "Int16"  -> <<TAG_INT16>> \o le_bytes(IF v.n < 0 THEN v.n + 65536 ELSE v.n, 2)
      [] v.t = "Int64"  -> <<TAG_INT64>> \o le_bytes(v.w.lo, 3) \o le_bytes(v.w.mid, 3)
                             \o le_bytes(IF v.w.hi < 0 THEN v.w.hi + 65536 ELSE v.w.hi, 2)
      [] v.t = "String" -> <<TAG_STRING>> \o EncodeString(v.s, wide)
      [] v.t = "List"   -> <<TAG_LIST>> \o EncodeSize(Len(v.items), wide)
                             \o EncodeAll(v.items, wide)
      [] v.t = "Map"    -> <<TAG_MAP>> \o EncodeSize(Len(v.pairs), wide)
                             \o EncodePairs(v.pairs, wide)
      [] v.t = "Blob"   -> <<TAG_BLOB>> \o EncodeSize(v.allocated, wide)
                             \o EncodeSize(Len(v.payload), wide)
                             \o EncodeSize(v.data_size, wide)
                             \o <<v.compression, v.checksum>> \o v.digest
                             \o <<v.align>> \o [i \in 1..v.align |-> 0]
                             \o v.payload
                             \o [i \in 1..(v.allocated - Len(v.payload)) |-> 238]

EncodeAll(vs, wide) ==
    IF vs = <<>> THEN <<>> ELSE Encode(Head(vs), wide) \o EncodeAll(Tail(vs), wide)

EncodePairs(ps, wide) ==
    IF ps = <<>> THEN <<>>
    ELSE EncodeString(Head(ps)[1], wide) \o Encode(Head(ps)[2], wide)
         \o EncodePairs(Tail(ps), wide)

\* The Item a tree denotes: a map holds, for each key written, the value of
\* the key's last pair.
RECURSIVE ToItem(_)
ToItem(v) ==
    CASE v.t = "List" -> List([i \in 1..Len(v.items) |-> ToItem(v.items[i])])
      [] v.t = "Map"  ->
           LET keys    == {v.pairs[i][1] : i \in 1..Len(v.pairs)}
               last(k) == CHOOSE i \in 1..Len(v.pairs) :
                              /\ v.pairs[i][1] = k
                              /\ \A j \in 1..Len(v.pairs) : v.pairs[j][1] = k => j <= i
           IN  Map([k \in keys |-> ToItem(v.pairs[last(k)][2])])
      [] v.t = "Blob" -> Blob(v.payload)          \* of an uncompressed blob
      [] OTHER        -> v

Scalars ==
    {Void, Bool(FALSE), Bool(TRUE),
     Int16(-1), Int16(1), Int16(-32768), Int16(32767), Int16(258),
     Int64(Limbs(0, 7, 6016277)),                \* 123456789
     Int64(Limbs(-1, 16777215, 16777215)),       \* -1
     Int64(Limbs(-32768, 0, 0)),                 \* i64::MIN
     Int64(Limbs(32767, 16777215, 16777215)),    \* i64::MAX
     String(<<>>), String(<<97>>), String(<<195, 169, 33>>)}

Fill == Int16(-1)                   \* the sibling of a nested element
Keys == {<<97>>, <<98, 99>>}        \* "a", "bc"

\* Sequences of length k with c at position p and Fill elsewhere.
Around(c, k, p) == [i \in 1..k |-> IF i = p THEN c ELSE Fill]

\* Sequences of k pairs with distinct keys, value c at position p.
PairsAround(c, k, p) ==
    {[i \in 1..k |-> <<ks[i], IF i = p THEN c ELSE Fill>>] :
        ks \in {q \in [1..k -> Keys] : \A i, j \in 1..k : q[i] = q[j] => i = j}}

\* The trees of nesting depth up to d over the given leaves: in a
\* container at most one element is not Fill.
RECURSIVE TreesOver(_, _)
TreesOver(leaves, d) ==
    IF d = 0 THEN leaves
    ELSE LET sub == TreesOver(leaves, d - 1)
         IN  leaves
             \cup {List(<<>>), TMap(<<>>)}
             \cup {List(Around(c, k, p)) : c \in sub, k \in 1..MaxLen, p \in 1..MaxLen}
             \cup UNION {{TMap(ps) : ps \in PairsAround(c, k, p)} :
                           c \in sub, k \in 1..MaxLen, p \in 1..MaxLen}

Trees(d) == TreesOver(Scalars, d)

\* What follows the first value of a document, when anything does.
Seconds == {Void, Int16(258), String(<<97>>), List(<<Bool(TRUE)>>)}

VersionBytes == {0, 1, 2, 4, 127, 128, 255}
Header(b4, b5) == PREFIX \o <<b4, b5>>

AllFeatures == {"md5", "zlib", "bz2"}

\* The values of fault.
Clean == [kind |-> "clean"]           \* input is Header \o EncodeAll(doc)
Raw == [kind |-> "raw"]               \* input was not encoded from a doc
Cut(q) == [kind |-> "cut", at |-> q]  \* the encoding ends before its q-th byte
Retagged(q, x) == [kind |-> "tag", at |-> q, byte |-> x]    \* byte q is x instead
Overdeclared(n) == [kind |-> "count", declared |-> n]       \* the count written is n
Short(q) == [kind |-> "short", at |-> q]    \* ends before byte q, inside sized data
Truncated(field) == [kind |-> "trunc", field |-> field]     \* ends inside that field

\* A Parser over the header and the encodings of zero, one or two trees.
InitDoc ==
    \E d \in {<<>>} \cup {<<t>> : t \in Trees(MaxDepth)}
                    \cup {<<t, u>> : t \in Trees(MaxDepth - 1), u \in Seconds} :
    \E wide \in BOOLEAN :
        new(Header(2, 2) \o EncodeAll(d, wide), {}, d, Clean)

NextDoc == Parse
SpecDoc == InitDoc /\ [][NextDoc]_vars


----------------------------------------------------------------------------
(* Inputs: raw streams around the header and the top-level tag.            *)

Min(a, b) == IF a < b THEN a ELSE b

\* s with the read at position e failing (e = 0 or beyond s: s itself)
FailAt(s, e) == [i \in 1..Len(s) |-> IF i = e THEN IoErr ELSE s[i]]

\* 'BSDF' and its one-byte corruptions
Magics ==
    {PREFIX} \cup {[PREFIX EXCEPT ![p] = x] : p \in 1..4, x \in {0, 98}}

HeaderTails ==
    {<<>>, <<TAG_VOID>>, <<TAG_INT16, 1, 0>>, <<120, TAG_VOID>>,
     Header(4, 2) \o <<TAG_TRUE>>}

\* A header, sound or not, then a tail, the whole cut after k reads; or a
\* sound header of any version and nothing else.
InitHeader ==
    \/ \E m \in Magics, b4 \in VersionBytes, b5 \in VersionBytes, tail \in HeaderTails :
         LET s == m \o <<b4, b5>> \o tail
         IN  \E k \in 0..Len(s), e \in {0, 2, 6, 7} :
                 new(FailAt(SubSeq(s, 1, k), e), {}, <<>>, Raw)
    \/ \E b4 \in 0..255, b5 \in 0..255 :
         new(Header(b4, b5), {}, <<>>, Raw)

TagTails ==
    {<<>>, <<1>>, <<1, 0>>, <<0, 0, 0, 0, 0, 0, 0, 0>>,
     <<2, TAG_VOID, TAG_VOID>>, <<1, 1, 97, TAG_TRUE>>,
     <<1, 1, 1, 0, 0, 0, 7>>, <<252>>}

\* A sound header, one byte where the tag is expected, then a tail.
InitTag ==
    \E t \in 0..255, tail \in TagTails, f \in {{}, AllFeatures} :
        new(Header(2, 2) \o <<t>> \o tail, f, <<>>, Raw)

InitRaw == InitHeader \/ InitTag
NextRaw == Parse
SpecRaw == InitRaw /\ [][NextRaw]_vars

----------------------------------------------------------------------------
(* Inputs: containers with an element missing.                             *)

\* The positions, in Encode(v, wide), of the tag bytes of the element
\* values of v and of the containers nested in it.
RECURSIVE ElementTags(_, _)
ElementTags(v, wide) ==
    CASE v.t = "List" ->
           LET at(i) == 1 + Len(EncodeSize(Len(v.items), wide))
                          + Len(EncodeAll(SubSeq(v.items, 1, i - 1), wide))
           IN  UNION {{at(i) + 1} \cup {at(i) + o : o \in ElementTags(v.items[i], wide)} :
                          i \in 1..Len(v.items)}
      [] v.t = "Map" ->
           LET at(i) == 1 + Len(EncodeSize(Len(v.pairs), wide))
                          + Len(EncodePairs(SubSeq(v.pairs, 1, i - 1), wide))
                          + Len(EncodeString(v.pairs[i][1], wide))
           IN  UNION {{at(i) + 1} \cup {at(i) + o : o \in ElementTags(v.pairs[i][2], wide)} :
                          i \in 1..Len(v.pairs)}
      [] OTHER -> {}

DamageLeaves == {Fill, String(<<97>>)}
DamageTrees == {t \in TreesOver(DamageLeaves, MaxDepth) : t.t \in {"List", "Map"}}
UnknownTags == {0, 120, 255}

\* The counts a container may declare beyond what it holds.
Counts ==
    {Limbs(0, 0, 250), Limbs(1, 0, 0),
     Limbs(32767, 16777215, 16777215),           \* isize::MAX
     Limbs(32768, 0, 0),                         \* isize::MAX + 1
     Limbs(65535, 16777215, 16777215)}           \* usize::MAX

\* What a map writes for one more pair up to where the value's tag is due.
NextKey(tag) == IF tag = TAG_MAP THEN EncodeString(<<122>>, FALSE) ELSE <<>>

\* An encoded container that ends where an element's tag is due, or holds an
\* unrecognized byte there; or a container of k elements declaring more.
InitDamaged ==
    \/ \E t \in DamageTrees, wide \in BOOLEAN :
         \E q \in ElementTags(t, wide) :
            \/ new(Header(2, 2) \o SubSeq(Encode(t, wide), 1, q - 1), {}, <<t>>, Cut(q))
            \/ \E x \in UnknownTags :
                 new(Header(2, 2) \o [Encode(t, wide) EXCEPT ![q] = x], {}, <<t>>,
                     Retagged(q, x))
    \/ \E t \in {List(<<>>), List(<<Fill>>), TMap(<<>>), TMap(<<<<<<97>>, Fill>>>>)},
          n \in Counts :
         new(Header(2, 2) \o <<Encode(t, FALSE)[1], LARGE_SIZE>> \o LimbBytes(n)
               \o SubSeq(Encode(t, FALSE), 3, Len(Encode(t, FALSE)))
               \o NextKey(Encode(t, FALSE)[1]),
             {}, <<t>>, Overdeclared(n))

NextDamaged == Parse
SpecDamaged == InitDamaged /\ [][NextDamaged]_vars

----------------------------------------------------------------------------
(* Inputs: blobs.                                                          *)

Payloads ==
    {<<>>, <<7>>, <<1, 2, 3>>,
     <<120, 2, 9>>,             \* decodes under the stand-in zlib codec
     <<66, 1, 5, 2, 6>>}        \* decodes under the stand-in bz2 codec

CompressionSettings == {0, 1, 2, 3, 99, 255}

\* payload with its first byte changed (one byte of other data when empty)
Flipped(payload) ==
    IF payload = <<>> THEN <<1>> ELSE [payload EXCEPT ![1] = (payload[1] + 1) % 256]

\* The checksum byte and digest field of a blob holding payload: the digest
\* of the payload, the digest of other data, or no digest at all.
ChecksumFields(payload) ==
    {<<CHECKSUM_SET, md5_compute(payload)>>,
     <<CHECKSUM_SET, md5_compute(Flipped(payload))>>,
     <<0, <<>>>>, <<254, <<>>>>}

BlobsOf(p) ==
    {TBlob(a, Len(p), c, ck[1], ck[2], al, p) :
        c \in CompressionSettings, al \in {0, 2},
        a \in {0, Len(p), Len(p) + 2}, ck \in ChecksumFields(p)}

Blobs == UNION {BlobsOf(p) : p \in Payloads}

\* A blob, alone or as the first of two elements of a list, in every build.
InitBlob ==
    \E b \in Blobs,
       wide \in BOOLEAN, nested \in BOOLEAN, f \in SUBSET AllFeatures :
        LET d == IF nested THEN <<List(<<b, Fill>>)>> ELSE <<b>>
        IN  new(Header(2, 2) \o EncodeAll(d, wide), f, d, Clean)

NextBlob == Parse
SpecBlob == InitBlob /\ [][NextBlob]_vars

----------------------------------------------------------------------------
(* Inputs: maps whose keys may repeat.                                     *)

MaxPairs == 3

\* A map nested as a value, its one key written twice.
TwiceA == TMap(<<<<(<<97>>), Int16(1)>>, <<(<<97>>), Int16(258)>>>>)

PairValues == {Int16(1), Int16(258), String(<<97>>), TwiceA}

\* Every sequence of up to MaxPairs (key, value) pairs over Keys.
PairSeqs ==
    UNION {[1..n -> {<<k, v>> : k \in Keys, v \in PairValues}] : n \in 0..MaxPairs}

InitMap ==
    \E ps \in PairSeqs, wide \in BOOLEAN :
        new(Header(2, 2) \o Encode(TMap(ps), wide), {}, <<TMap(ps)>>, Clean)

NextMap == Parse
SpecMap == InitMap /\ [][NextMap]_vars

----------------------------------------------------------------------------
(* Inputs: streams that end inside length-prefixed data.                   *)

ShortStrings == {String(<<97>>), String(<<97, 98, 99>>), String(<<195, 169, 33>>)}

\* A string on its own, as the last element of a list, as the last value of
\* a map: the encodings that end with the string's bytes.
ShortHolders(v) == {v, List(<<v>>), List(<<Fill, v>>), TMap(<<<<(<<97>>), v>>>>)}

ShortBlobs ==
    {b \in Blobs : /\ b.payload \in {<<7>>, <<1, 2, 3>>}
                   /\ b.allocated = Len(b.payload)
                   /\ b.compression = COMPRESSION_NOT_SET
                   /\ b.checksum \in {0, CHECKSUM_SET}
                   /\ b.digest \in {<<>>, md5_compute(b.payload)}}

\* Where the digest and the payload of an encoded blob lie.
DigestAt(b, wide) ==
    {1 + Len(EncodeSize(b.allocated, wide)) + Len(EncodeSize(Len(b.payload), wide))
       + Len(EncodeSize(b.data_size, wide)) + 2 + i : i \in 1..Len(b.digest)}
PayloadAt(b, wide) ==
    {Len(Encode(b, wide)) - Len(b.payload) + i : i \in 1..Len(b.payload)}

InitShort ==
    \/ \E v \in ShortStrings, wide \in BOOLEAN :
         \E t \in ShortHolders(v), k \in 1..Len(v.s) :
            new(Header(2, 2) \o SubSeq(Encode(t, wide), 1, Len(Encode(t, wide)) - k),
                {}, <<t>>, Short(Len(Encode(t, wide)) - k + 1))
    \/ \E b \in ShortBlobs, wide \in BOOLEAN, f \in SUBSET AllFeatures :
         \E q \in DigestAt(b, wide) \cup PayloadAt(b, wide) :
            new(Header(2, 2) \o SubSeq(Encode(b, wide), 1, q - 1), f, <<b>>, Short(q))

NextShort == Parse
SpecShort == InitShort /\ [][NextShort]_vars

----------------------------------------------------------------------------
(* Inputs: streams that end inside a fixed-width field.                    *)

\* The payload width of the fixed-width tags.
WidthOf(tag) ==
    CASE tag = TAG_INT16 -> 2 [] tag = TAG_INT64 -> 8
      [] tag = TAG_F32 -> 4 [] tag = TAG_F64 -> 8

FieldBytes == <<2, 1, 0, 0, 0, 0, 0, 0>>

\* What precedes the value: nothing, or a container that expects it.
Contexts ==
    {<<>>, <<TAG_LIST, 1>>, <<TAG_LIST, 2>> \o Encode(Fill, FALSE),
     <<TAG_MAP, 1>> \o EncodeString(<<97>>, FALSE)}

\* A tag and fewer payload bytes than its width.
FixedCut ==
    UNION {{<<tag>> \o SubSeq(FieldBytes, 1, k) : k \in 0..(WidthOf(tag) - 1)} :
              tag \in {TAG_INT16, TAG_INT64, TAG_F32, TAG_F64}}

\* The streams that end where a size byte is due: the size of a string, a
\* list, a map, a map key, or one of the three sizes of a blob.
SizeDue ==
    {<<TAG_STRING>>, <<TAG_LIST>>, <<TAG_MAP>>, <<TAG_MAP, 1>>,
     <<TAG_BLOB>>, <<TAG_BLOB, 1>>, <<TAG_BLOB, 1, 1>>}

\* The same with the size byte 253 and fewer than 8 bytes after it.
WideCut == {p \o <<LARGE_SIZE>> \o SubSeq(FieldBytes, 1, k) : p \in SizeDue, k \in 0..7}

\* The header cut short, a value cut inside a field, or a damaged container.
InitTruncated ==
    \/ \E c \in Contexts :
         \/ \E s \in FixedCut : new(Header(2, 2) \o c \o s, {}, <<>>, Truncated("fixed"))
         \/ \E s \in SizeDue : new(Header(2, 2) \o c \o s, {}, <<>>, Truncated("size"))
         \/ \E s \in WideCut : new(Header(2, 2) \o c \o s, {}, <<>>, Truncated("wide"))
    \/ \E k \in 0..(HEADER_LEN - 1) : new(SubSeq(Header(2, 2), 1, k), {}, <<>>, Raw)
    \/ InitDamaged

NextTruncated == Parse
SpecTruncated == InitTruncated /\ [][NextTruncated]_vars

----------------------------------------------------------------------------
(* Inputs: a blob and the value after it.                                  *)

After == Int16(258)

\* A blob followed by another value, side by side in the stream or as the
\* two elements of a list, in every build.
InitFollowed ==
    \E b \in Blobs, wide \in BOOLEAN, nested \in BOOLEAN, f \in SUBSET AllFeatures :
        \E d \in {IF nested THEN <<List(<<b, After>>)>> ELSE <<b, After>>} :
            new(Header(2, 2) \o EncodeAll(d, wide), f, d, Clean)

NextFollowed == Parse
SpecFollowed == InitFollowed /\ [][NextFollowed]_vars

----------------------------------------------------------------------------
(* The size codec on its own: parse_size applied to a size field.          *)

SizeTails ==
    {<<>>,
     <<201, 2, 0, 0, 0, 0, 0, 0>>,               \* 713, as in parses_string
     <<201, 2, 0, 0, 0, 0, 0, 0, 7>>,
     <<255, 255, 255, 255, 255, 255, 255, 255>>,
     <<1, 2, 3, 4, 5, 6, 7, 8, 9>>,
     <<0, 0, 0, 0, 0, 0, 0, 128, 250>>,
     <<0, 0, 0, 1, 0, 0, 0>>,                    \* one byte short
     <<1, 2, IoErr, 0, 0, 0, 0, 0, 0>>,
     <<250, 251>>}

InitSize ==
    \E b \in 0..255, tail \in SizeTails : new(<<b>> \o tail, {}, <<>>, Raw)

\* One call of parse_size on the reader.
ParseSize ==
    /\ Len(results) < MaxCalls
    /\ \E size \in {parse_size(reader)} :
           /\ results' = Append(results, size.res)
           /\ reader' = size.rd
    /\ UNCHANGED <<version, input, doc, fault, features>>

NextSize == ParseSize
SpecSize == InitSize /\ [][NextSize]_vars

----------------------------------------------------------------------------
(* Claims.                                                                 *)

\* The first call of parse has returned.
Called == Len(results) >= 1
\* input is a header and the clean encoding of the trees of doc.
Encoded == fault = Clean

\* C1: on the stream 'BSDF' ++ 2 version bytes ++ encode(v), v a tree of
\* Void, Bool, Int16, Int64, String, List and Map with distinct map keys,
\* parse returns Ok(Some(v)): the same structure, the same values.
C1_RoundTrip ==
    (Encoded /\ Len(doc) = 1 /\ Called) => results[1] = Ok(Some(ToItem(doc[1])))

\* C1 witness: a map holding a nested container and an Int16 was decoded.
C1_Witness ==
    /\ Encoded /\ Len(doc) = 1 /\ Called
    /\ doc[1].t = "Map"
    /\ Len(doc[1].pairs) = 2
    /\ doc[1].pairs[1][2].t = "List"
    /\ Len(doc[1].pairs[1][2].items) = 2
    /\ doc[1].pairs[1][2].items[1].t = "Int64"
    /\ DOMAIN results[1].v.val.m = Keys
    /\ results[1].v.val.m[<<97>>].t \in {"List", "Int16"}

\* C5: on 'BSDF' ++ version ++ enc(v1) ++ enc(v2) the first parse returns
\* Ok(Some(v1)), the second Ok(Some(v2)) with no second header check, and a
\* further call at end of stream Ok(None).
C5_HeaderOnlyOnFirstCall ==
    (Encoded /\ Len(doc) = 2) =>
        /\ Len(results) >= 1 => results[1] = Ok(Some(ToItem(doc[1])))
        /\ Len(results) >= 2 => results[2] = Ok(Some(ToItem(doc[2])))
        /\ Len(results) >= 3 => results[3] = Ok(None)


\* Every read of s succeeds.
AllBytes(s) == \A i \in 1..Len(s) : IsByte(s[i])
\* s starts with six readable bytes, the first four 'BSDF'.
SoundHeader(s) ==
    Len(s) >= 6 /\ AllBytes(SubSeq(s, 1, 6)) /\ SubSeq(s, 1, 4) = PREFIX

\* C2: a stream of fewer than 6 bytes, the empty one included, fails with
\* MissingData; a stream of at least 6 bytes whose first 4 are not 'BSDF'
\* fails with InvalidHeader; neither call returns a value.
C2_HeaderValidation ==
    Called =>
        /\ (Len(input) < 6 /\ AllBytes(input)) => results[1] = Err(MissingData)
        /\ (Len(input) >= 6 /\ AllBytes(SubSeq(input, 1, 6))
              /\ SubSeq(input, 1, 4) # PREFIX) => results[1] = Err(InvalidHeader)

\* C2 witness: 'BSDF' and one version byte, five bytes in all, was rejected.
C2_Witness ==
    /\ Called
    /\ Len(input) = 5
    /\ SubSeq(input, 1, 4) = PREFIX
    /\ results[1] = Err(MissingData)

\* C3: after 'BSDF', b4, b5 the first parse records version b4 + 256 * b5,
\* whatever the two bytes, and reads the tag right after these six bytes; a
\* stream of the six header bytes alone gives Ok(None); a failed header
\* validation leaves the version unset.
C3_Version ==
    Called =>
        /\ SoundHeader(input) =>
             /\ Len(results) = 1 => version = Some(input[5] + 256 * input[6])
             /\ \E mem \in BOOLEAN :
                  \E item \in {parse_item(Drop(input, 6), mem)} :
                      /\ results[1] = item.res
                      /\ Len(results) = 1 => reader = item.rd
             /\ Len(input) = 6 => results[1] = Ok(None)
        /\ (~SoundHeader(input) /\ Len(results) = 1) => version = None

\* C3 witness: the header 'BSDF' 04 02 alone was parsed: version 516, no value.
C3_Witness ==
    /\ input = Header(4, 2)
    /\ results = <<Ok(None)>>
    /\ version = Some(516)

Tags ==
    {TAG_VOID, TAG_FALSE, TAG_TRUE, TAG_INT16, TAG_INT64, TAG_F32, TAG_F64,
     TAG_STRING, TAG_LIST, TAG_MAP, TAG_BLOB}

\* The variant of Item the decoder of tag byte t builds.
VariantOf(t) ==
    CASE t = TAG_VOID -> "Void"     [] t = TAG_FALSE -> "Bool"  [] t = TAG_TRUE -> "Bool"
      [] t = TAG_INT16 -> "Int16"   [] t = TAG_INT64 -> "Int64" [] t = TAG_F32 -> "F32"
      [] t = TAG_F64 -> "F64"       [] t = TAG_STRING -> "String"
      [] t = TAG_LIST -> "List"     [] t = TAG_MAP -> "Map"     [] t = TAG_BLOB -> "Blob"

\* C6: after a sound header, parse returns Ok(None) when the stream has
\* ended and when the tag byte is none of v n y h i f d s l m b; on each of
\* these eleven it runs that tag's decoder and never returns Ok(None).
C6_NoValueAtTopLevel ==
    (Called /\ SoundHeader(input)) =>
        /\ Len(input) = 6 => results[1] = Ok(None)
        /\ (Len(input) > 6 /\ IsByte(input[7]) /\ input[7] \notin Tags)
              => results[1] = Ok(None)
        /\ (Len(input) > 6 /\ input[7] \in Tags) =>
              /\ results[1] # Ok(None)
              /\ results[1].r = "Ok" => results[1].v.val.t = VariantOf(input[7])

\* C6 witness: the unrecognized tag byte 'x' with bytes after it gave Ok(None).
C6_Witness ==
    /\ Len(input) = 8
    /\ SoundHeader(input)
    /\ input[7] = 120
    /\ Called
    /\ results[1] = Ok(None)


\* C4: parse_size on first byte b: b in 0..250 is the size b, one byte
\* consumed; b = 253 is the next 8 bytes as a little-endian u64, nine bytes
\* consumed; b in {251, 252, 254, 255} is Err(InvalidSize).
C4_SizeCodec ==
    (Called /\ Len(input) >= 1 /\ IsByte(input[1])) =>
        LET b == input[1]
        IN  /\ b <= 250 =>
                 /\ results[1] = Ok(Limbs(0, 0, b))
                 /\ Len(results) = 1 => reader = Drop(input, 1)
            /\ (b = 253 /\ Len(input) >= 9 /\ AllBytes(SubSeq(input, 1, 9))) =>
                 /\ results[1].r = "Ok"
                 /\ results[1].v.lo \in 0..16777215
                 /\ results[1].v.mid \in 0..16777215
                 /\ results[1].v.hi \in 0..65535
                 /\ LimbBytes(results[1].v) = SubSeq(input, 2, 9)
                 /\ Len(results) = 1 => reader = Drop(input, 9)
            /\ b \in {251, 252, 254, 255} => results[1] = Err(InvalidSize)

\* C4 witness: the size field fd c9 02 00 00 00 00 00 00 decoded to 713 and
\* the byte after it is still unread.
C4_Witness ==
    /\ input = <<253, 201, 2, 0, 0, 0, 0, 0, 0, 7>>
    /\ results = <<Ok(Limbs(0, 0, 713))>>
    /\ reader = <<7>>


\* input is a container whose element tag is missing: the stream ends
\* there, an unrecognized byte stands there, or fewer elements follow than
\* the count declares.
ElementMissing == fault.kind \in {"cut", "tag", "count"}

\* C7 as claimed: whenever a declared element's tag position holds the end
\* of the stream or an unrecognized byte, at any depth, parse returns
\* Err(MissingData).
C7_AlwaysMissingData ==
    (Called /\ ElementMissing) => results[1] = Err(MissingData)

\* C7 amended: the same, provided Vec::with_capacity / Map::with_capacity
\* of the declared count returns: it does for the counts below 2^24, it
\* panics above isize::MAX, and then parse does not return at all.  Either
\* way parse returns no List or Map.
C7_MissingDataUnlessCrash ==
    (Called /\ ElementMissing) =>
        /\ results[1] \in {Err(MissingData), Crash}
        /\ fault.kind \in {"cut", "tag"} => results[1] = Err(MissingData)
        /\ (fault.kind = "count" /\ IsSmall(fault.declared)) => results[1] = Err(MissingData)
        /\ (fault.kind = "count" /\ fault.declared.hi >= 32768) => results[1] = Crash

\* C7 witness: a list nested in a container had its element's tag replaced
\* by an unrecognized byte, and the parse failed with MissingData.
C7_Witness ==
    /\ Called
    /\ fault.kind = "tag"
    /\ doc[1].t = "Map"
    /\ \E i \in 1..Len(doc[1].pairs) :
          /\ doc[1].pairs[i][2].t = "List"
          /\ doc[1].pairs[i][2].items # <<>>
          /\ fault.at > 4
          /\ input[6 + fault.at - 2] = TAG_LIST
    /\ results[1] = Err(MissingData)


\* The blob of the document, when the document is one blob written whole.
IsBlobDoc == Called /\ Encoded /\ Len(doc) = 1 /\ doc[1].t = "Blob"
TheBlob == doc[1]
DigestMatches == TheBlob.digest = md5_compute(TheBlob.payload)

\* C8: in a build with md5, a blob with checksum setting 0xFF and compression
\* setting 0 decodes to Blob of exactly the stored payload bytes when the 16
\* digest bytes of the stream are the digest of those bytes, and to
\* Err(InvalidBlobHash) when they are not.
C8_ChecksumVerified ==
    (/\ IsBlobDoc /\ "md5" \in features
     /\ TheBlob.checksum = CHECKSUM_SET
     /\ TheBlob.compression = COMPRESSION_NOT_SET)
    => results[1] = IF DigestMatches
                    THEN Ok(Some(Blob(TheBlob.payload)))
                    ELSE Err(InvalidBlobHash)

\* C8 witness: a non-empty payload whose digest field was computed over the
\* payload with one byte changed has been refused with InvalidBlobHash.
C8_Witness ==
    /\ IsBlobDoc /\ "md5" \in features
    /\ TheBlob.checksum = CHECKSUM_SET
    /\ TheBlob.compression = COMPRESSION_NOT_SET
    /\ TheBlob.payload # <<>>
    /\ TheBlob.digest = md5_compute(Flipped(TheBlob.payload))
    /\ results[1] = Err(InvalidBlobHash)

\* C9: a blob whose checksum byte is not 0xFF is never refused with
\* InvalidBlobHash, whatever the build, and with compression setting 0 it
\* decodes to Blob of the stored payload.
C9_AbsentChecksumPasses ==
    (IsBlobDoc /\ TheBlob.checksum # CHECKSUM_SET)
    => /\ results[1] # Err(InvalidBlobHash)
       /\ TheBlob.compression = COMPRESSION_NOT_SET
              => results[1] = Ok(Some(Blob(TheBlob.payload)))

\* C10: for a blob whose checksum is absent or matches, a compression byte c
\* outside {0, 1, 2} gives Err(InvalidCompressionSetting(c)), c = 1 without
\* zlib gives Err(ZlibNotCompiled), c = 2 without bz2 gives
\* Err(Bz2NotCompiled), and c = 0 gives the raw bytes in every build.
C10_CompressionSetting ==
    (IsBlobDoc /\ (TheBlob.checksum # CHECKSUM_SET \/ DigestMatches))
    => results[1] =
         CASE TheBlob.compression = COMPRESSION_NOT_SET ->
                  Ok(Some(Blob(TheBlob.payload)))
           [] TheBlob.compression = COMPRESSION_ZLIB /\ "zlib" \notin features ->
                  Err(ZlibNotCompiled)
           [] TheBlob.compression = COMPRESSION_BZ2 /\ "bz2" \notin features ->
                  Err(Bz2NotCompiled)
           [] TheBlob.compression \notin
                  {COMPRESSION_NOT_SET, COMPRESSION_ZLIB, COMPRESSION_BZ2} ->
                  Err(InvalidCompressionSetting(TheBlob.compression))
           [] OTHER -> results[1]


\* The keys a written map holds, and where each occurs last.
KeysOf(pairs) == {pairs[i][1] : i \in 1..Len(pairs)}
LastOf(pairs, k) ==
    CHOOSE i \in 1..Len(pairs) :
        pairs[i][1] = k /\ \A j \in 1..Len(pairs) : pairs[j][1] = k => j <= i

\* C11: a map written as pairs (k1,v1)..(kn,vn) decodes to a Map with one
\* entry per distinct key, each key holding the value of its last occurrence
\* in stream order; the entry count is the number of distinct keys, n when
\* no key repeats.
C11_LastWriteWins ==
    (Called /\ Encoded /\ Len(doc) = 1 /\ doc[1].t = "Map")
    => /\ results[1].r = "Ok" /\ results[1].v.some
       /\ results[1].v.val.t = "Map"
       /\ DOMAIN results[1].v.val.m = KeysOf(doc[1].pairs)
       /\ Cardinality(DOMAIN results[1].v.val.m) = Cardinality(KeysOf(doc[1].pairs))
       /\ Cardinality(KeysOf(doc[1].pairs)) <= Len(doc[1].pairs)
       /\ (\A i, j \in 1..Len(doc[1].pairs) : doc[1].pairs[i][1] = doc[1].pairs[j][1] => i = j)
              => Cardinality(DOMAIN results[1].v.val.m) = Len(doc[1].pairs)
       /\ \A k \in KeysOf(doc[1].pairs) :
              results[1].v.val.m[k] = ToItem(doc[1].pairs[LastOf(doc[1].pairs, k)][2])

\* C11 witness: three pairs, the first and the last under the same key with
\* different values, decoded to two entries, that key holding the last value.
C11_Witness ==
    /\ Called /\ Encoded /\ Len(doc) = 1 /\ doc[1].t = "Map"
    /\ Len(doc[1].pairs) = 3
    /\ doc[1].pairs[1][1] = doc[1].pairs[3][1]
    /\ doc[1].pairs[2][1] # doc[1].pairs[1][1]
    /\ doc[1].pairs[1][2] # doc[1].pairs[3][2]
    /\ results[1].r = "Ok"
    /\ Cardinality(DOMAIN results[1].v.val.m) = 2
    /\ results[1].v.val.m[doc[1].pairs[1][1]] = ToItem(doc[1].pairs[3][2])


\* C12: when the stream ends inside the declared bytes of a string, inside
\* the used_size bytes of a blob or inside its 16 digest bytes, parse
\* returns an error: never Ok with a String or Blob of fewer bytes.
C12_NoPartialValue ==
    (Called /\ fault.kind = "short") => results[1].r = "Err"


\* C13: a stream that ends inside the payload of h, i, f or d, where a size
\* byte is due, or inside the 8 bytes of an extended size makes parse return
\* Err(Eof), not Err(MissingData) and not Ok; Err(MissingData) comes only
\* from a header of fewer than 6 bytes or a missing container element.
C13_EofInsideField ==
    Called =>
        /\ fault.kind = "trunc" => results[1] = Err(Eof)
        /\ results[1] = Err(MissingData)
               => (Len(input) < HEADER_LEN \/ ElementMissing)

\* C13 witness: inside a map, an extended size was cut after its fifth byte
\* and the parse failed with Eof.
C13_Witness ==
    /\ Called
    /\ fault = Truncated("wide")
    /\ Len(input) >= HEADER_LEN + 4 + 7
    /\ input[HEADER_LEN + 1] = TAG_MAP
    /\ input[Len(input) - 5] = LARGE_SIZE
    /\ results[1] = Err(Eof)


\* The build and the blob b are such that the hash check lets b through
\* and b's bytes are returned as stored.
Passes(b) ==
    /\ b.compression = COMPRESSION_NOT_SET
    /\ \/ "md5" \notin features
       \/ b.checksum = CHECKSUM_SET /\ b.digest = md5_compute(b.payload)

\* C14: decoding a blob written as three sizes, compression byte, checksum
\* byte, 16 digest bytes iff the checksum byte is 0xFF, alignment byte a, a
\* padding bytes, used_size payload bytes and max(allocated - used, 0)
\* trailing bytes consumes exactly those bytes, also when used_size exceeds
\* allocated_size: after the call the reader stands at the value that
\* follows, and a list of the blob and that value decodes to both.
C14_BlobConsumption ==
    /\ (Len(results) = 1 /\ Encoded /\ Len(doc) = 2 /\ doc[1].t = "Blob")
           => reader = Encode(doc[2], FALSE)
    /\ (Called /\ Encoded /\ Len(doc) = 1 /\ doc[1].t = "List"
          /\ doc[1].items[1].t = "Blob" /\ Passes(doc[1].items[1]))
           => results[1] = Ok(Some(List(<<Blob(doc[1].items[1].payload),
                                          doc[1].items[2]>>)))

\* C14 witness: in a build with md5, a blob with a matching digest, two
\* padding bytes and more used than allocated bytes was decoded as the first
\* element of a list, and the element after it as well.
C14_Witness ==
    /\ Called /\ Encoded /\ Len(doc) = 1 /\ doc[1].t = "List"
    /\ doc[1].items[1].t = "Blob"
    /\ "md5" \in features
    /\ doc[1].items[1].checksum = CHECKSUM_SET
    /\ doc[1].items[1].align = 2
    /\ doc[1].items[1].allocated < Len(doc[1].items[1].payload)
    /\ results[1] = Ok(Some(List(<<Blob(doc[1].items[1].payload), After>>)))

=============================================================================
